---------------------------- MODULE Spec2Model ----------------------------
(***************************************************************************)
(* Model of word_rules.py: the derivation of forbidden letter tuples       *)
(* (forbid_tuples) and its helpers character_types, character_order,       *)
(* next_word and match.                                                    *)
(*                                                                         *)
(* Strings are sequences of one-letter strings; None is the empty          *)
(* sequence (next_word never returns the empty string).  The alphabet is   *)
(* bounded to its first AlphabetSize letters: _Z is the code of the last   *)
(* letter of the bounded alphabet and plays the part of ord('z').          *)
(***************************************************************************)
EXTENDS Integers, Sequences, FiniteSets, TLC

\* ------------------------------------------------------------------ bounds

\* number of letters of the alphabet that the model enumerates (26 in the code)
AlphabetSize == 4
\* largest value of the parameter num (maximum tuple length) that is tried
MaxNum == 3
\* largest word length from which next_word is iterated on its own
MaxLen == 4

\* ------------------------------------------------------- program constants

Letters ==
  << "a", "b", "c", "d", "e", "f", "g", "h", "i", "j", "k", "l", "m",
     "n", "o", "p", "q", "r", "s", "t", "u", "v", "w", "x", "y", "z" >>

CONSONANTS ==
  { "b", "c", "d", "f", "g", "h", "j", "k", "l", "m", "n", "p", "q", "r",
    "s", "t", "v", "w", "x", "y", "z" }

VOWELS == { "a", "e", "i", "o", "u" }

_A == 97

_Z == _A + AlphabetSize - 1

None == << >>

Unscored == -1

ord(c) == _A - 1 + (CHOOSE j \in 1..Len(Letters) : Letters[j] = c)

chr(x) == Letters[x - _A + 1]

\* the letter groups passed by the script's entry point
g ==
  { <<"c", "h">>, <<"g", "h">>, <<"p", "h">>, <<"s", "h">>, <<"t", "h">>,
    <<"n", "g">>, <<"q", "u">> }

order == << "c", "v", "c_b", "vc", "v_w", "cv_w" >>

\* ("c") and ("v") are the strings "c" and "v": iterating them yields the
\* single name, as iterating a one-element tuple would
parents ==
  << << >>, << >>, << "c" >>, << "c", "v" >>, << "v" >>,
     << "c", "v", "c_b" >> >>

\* the characters of each block name, for the tests 'v' in block, "cv" in block
BlockName ==
  [ b \in { "c", "v", "c_b", "vc", "v_w", "cv_w" } |->
      CASE b = "c"    -> << "c" >>
        [] b = "v"    -> << "v" >>
        [] b = "c_b"  -> << "c", "_", "b" >>
        [] b = "vc"   -> << "v", "c" >>
        [] b = "v_w"  -> << "v", "_", "w" >>
        [] b = "cv_w" -> << "c", "v", "_", "w" >> ]

\* ------------------------------------------------------------ pure helpers

\* Python's  a in b  on strings: a is a contiguous substring of b
In(a, b) ==
  \E j \in 0..(Len(b) - Len(a)) : SubSeq(b, j + 1, j + Len(a)) = a

\* 'a' * n
Repeat(c, n) == [ j \in 1..n |-> c ]

character_types(w, vowel) ==
  \E j \in 1..Len(w) :
    IF vowel = FALSE THEN w[j] \in CONSONANTS ELSE w[j] \in VOWELS

RECURSIVE OrderScan(_, _, _, _)
OrderScan(w, j, found, vc) ==
  IF j > Len(w) THEN FALSE
  ELSE IF vc = FALSE
       THEN IF w[j] \in CONSONANTS THEN OrderScan(w, j + 1, TRUE, vc)
            ELSE IF found = TRUE THEN TRUE
            ELSE OrderScan(w, j + 1, found, vc)
       ELSE IF w[j] \in VOWELS THEN OrderScan(w, j + 1, TRUE, vc)
            ELSE IF found = TRUE THEN TRUE
            ELSE OrderScan(w, j + 1, found, vc)

\* character_order with the meaning of its flag exchanged
character_order_swapped(w, vc) ==
  IF Len(w) < 2 THEN FALSE ELSE OrderScan(w, 1, FALSE, ~ vc)

character_order(w, vc) ==
  IF Len(w) < 2 THEN FALSE ELSE OrderScan(w, 1, FALSE, vc)

\* next_word with the carry dropped: an overflow of the last letter ends the
\* enumeration of every word longer than one letter's worth
RECURSIVE next_word_nocarry(_)
next_word_nocarry(w) ==
  LET final == ord(w[Len(w)]) + 1
      front == SubSeq(w, 1, Len(w) - 1)
  IN  IF final > _Z
      THEN IF Len(w) = 1 THEN None
           ELSE Append(front, "a")
      ELSE Append(front, chr(final))

RECURSIVE next_word(_)
next_word(w) ==
  LET final == ord(w[Len(w)]) + 1
      front == SubSeq(w, 1, Len(w) - 1)
  IN  IF final > _Z
      THEN IF Len(w) = 1 THEN None
           ELSE LET head == next_word(front)
                IN  IF head = None THEN None ELSE Append(head, "a")
      ELSE Append(front, chr(final))

\* match with the operands of  pat in w  exchanged
match_swapped(pat, lst, ign) ==
  { w \in lst : w \notin ign /\ In(w, pat) }

match(pat, lst, ign) ==
  { w \in lst : w \notin ign /\ In(pat, w) }

\* the four filters of the enumeration loop, each the condition of one if
SkipVowels(block, pattern) ==
  ~ In(<< "v" >>, BlockName[block]) /\ character_types(pattern, TRUE)

SkipConsonants(block, pattern) ==
  ~ In(<< "c" >>, BlockName[block]) /\ character_types(pattern, FALSE)

SkipVC(block, pattern) ==
  In(<< "c", "v" >>, BlockName[block]) /\ character_order(pattern, TRUE)

SkipCV(block, pattern) ==
  In(<< "v", "c" >>, BlockName[block]) /\ character_order(pattern, FALSE)

\* the coverage test with the operands of  r in pattern  exchanged
Covered_swapped(pattern, o) == \E r \in o : In(pattern, r)

\* for r in out: if r in pattern: skip
Covered(pattern, o) == \E r \in o : In(r, pattern)

\* the parent loop leaving at the first parent without a rule set
RECURSIVE ParentCovered_break(_, _, _, _)
ParentCovered_break(pattern, pars, brules, j) ==
  IF j > Len(pars) THEN FALSE
  ELSE IF pars[j] \notin DOMAIN brules THEN FALSE
  ELSE IF pattern \in brules[pars[j]] THEN TRUE
  ELSE ParentCovered_break(pattern, pars, brules, j + 1)

\* the parent loop testing containment of a parent rule instead of equality
RECURSIVE ParentCovered_substring(_, _, _, _)
ParentCovered_substring(pattern, pars, brules, j) ==
  IF j > Len(pars) THEN FALSE
  ELSE IF pars[j] \notin DOMAIN brules
       THEN ParentCovered_substring(pattern, pars, brules, j + 1)
  ELSE IF \E r \in brules[pars[j]] : In(r, pattern) THEN TRUE
  ELSE ParentCovered_substring(pattern, pars, brules, j + 1)

\* for par in parents[i]: continue if it has no rule set, skip on a hit
RECURSIVE ParentCovered(_, _, _, _)
ParentCovered(pattern, pars, brules, j) ==
  IF j > Len(pars) THEN FALSE
  ELSE IF pars[j] \notin DOMAIN brules
       THEN ParentCovered(pattern, pars, brules, j + 1)
  ELSE IF pattern \in brules[pars[j]] THEN TRUE
  ELSE ParentCovered(pattern, pars, brules, j + 1)

\* the rule dictionary rebuilt from the current block alone
KeepRules_fresh(brules, block, o) == (block :> o)

\* block_rules[block] = out
KeepRules(brules, block, o) == (block :> o) @@ brules

EmptyDict == [ x \in {} |-> {} ]

RECURSIVE Pow(_, _)
Pow(b, e) == IF e = 0 THEN 1 ELSE b * Pow(b, e - 1)

\* ------------------------------------------------------------------ inputs

\* word block lists read from the input file, one per section
BlocksEmpty == [ b \in { "c", "v", "c_b", "vc", "v_w", "cv_w" } |-> {} ]

BlocksSmall ==
  [ b \in { "c", "v", "c_b", "vc", "v_w", "cv_w" } |->
      CASE b = "c"    -> { <<"b">>, <<"b", "c">>, <<"c", "d">> }
        [] b = "v"    -> { <<"a">>, <<"a", "a">> }
        [] b = "c_b"  -> { <<"b">>, <<"d">>, <<"b", "c">> }
        [] b = "vc"   -> { <<"a", "b">>, <<"a", "a", "b">>, <<"a", "c", "d">> }
        [] b = "v_w"  -> { <<"a">> }
        [] b = "cv_w" -> { <<"b", "a">>, <<"d", "a">>, <<"b", "c", "a">> } ]

BlocksMixed ==
  [ b \in { "c", "v", "c_b", "vc", "v_w", "cv_w" } |->
      CASE b = "c"    -> {}
        [] b = "v"    -> {}
        [] b = "c_b"  -> { <<"b">>, <<"b", "c">> }
        [] b = "vc"   -> { <<"a", "b">>, <<"b", "b">> }
        [] b = "v_w"  -> { <<"a", "a">> }
        [] b = "cv_w" -> { <<"b", "a">>, <<"c", "b", "a">> } ]

BlocksChoices == { BlocksEmpty, BlocksSmall, BlocksMixed }

\* values of the ignore argument that are tried
IgnoreChoices ==
  { {}, { "c" }, { "v" }, { "vc" }, { "c", "v" }, { "c_b", "v_w", "cv_w" } }

\* the enumeration loop never runs longer than this within one length pass
VisitCap == Pow(AlphabetSize, MaxNum) + 1

\* ------------------------------------------------------------------- state

VARIABLES
  blocks,       \* section name -> word blocks of the input file
  num,          \* maximum tuple length
  ignore,       \* sections to leave out
  block_rules,  \* section name -> finished rule set
  k,            \* position of the for loop over order (1-based)
  i,            \* the index into parents (0-based, as in the code)
  pc,           \* "block", "length", "enum", "score", "write", "done"
  n,            \* current tuple length
  pattern,      \* current pattern of the enumeration loop, or None
  rules,        \* pattern -> number of matches (Unscored before scoring)
  out,          \* committed rules of the block being processed
  config,       \* what is handed to the output file
  used,         \* section name -> the value of i it was processed with
  visits,       \* iterations of the enumeration loop in this length pass
  w,            \* current word of an iteration of next_word on its own
  wlen,         \* the length the iteration started from
  prev,         \* the word next_word was last applied to
  steps         \* number of applications of next_word so far

vars ==
  << blocks, num, ignore, block_rules, k, i, pc, n, pattern, rules, out,
     config, used, visits, w, wlen, prev, steps >>

inputs == << blocks, num, ignore >>

wordvars == << w, wlen, prev, steps >>

block == order[k]

\* --------------------------------------------------------- forbid_tuples

Init ==
  /\ blocks \in BlocksChoices
  /\ num \in 2..MaxNum
  /\ ignore \in IgnoreChoices
  /\ block_rules = EmptyDict
  /\ k = 1
  /\ i = 0
  /\ pc = "block"
  /\ n = 2
  /\ pattern = None
  /\ rules = EmptyDict
  /\ out = {}
  /\ config = EmptyDict
  /\ used = EmptyDict
  /\ visits = 0
  /\ w = None
  /\ wlen = 0
  /\ prev = None
  /\ steps = 0

\* if block == "DEFAULT" or block in ignore: continue
SkipBlock ==
  /\ pc = "block"
  /\ k <= Len(order)
  /\ (block = "DEFAULT" \/ block \in ignore)
  /\ k' = k + 1
  /\ UNCHANGED << inputs, block_rules, i, pc, n, pattern, rules, out, config,
                  used, visits, wordvars >>

\* rules = {}; out = {}; the range over n starts at 2
StartBlock ==
  /\ pc = "block"
  /\ k <= Len(order)
  /\ ~ (block = "DEFAULT" \/ block \in ignore)
  /\ rules' = EmptyDict
  /\ out' = {}
  /\ n' = 2
  /\ pc' = "length"
  /\ used' = (block :> i) @@ used
  /\ UNCHANGED << inputs, block_rules, k, i, pattern, config, visits,
                  wordvars >>

\* for n in range(2, num+1): pattern = 'a'*n
StartLength ==
  /\ pc = "length"
  /\ n <= num
  /\ pattern' = Repeat("a", n)
  /\ visits' = 0
  /\ pc' = "enum"
  /\ UNCHANGED << inputs, block_rules, k, i, n, rules, out, config, used,
                  wordvars >>

\* one iteration of the while loop that ends in  pattern = next_word(pattern)
Advance ==
  /\ visits < VisitCap
  /\ pattern' = next_word(pattern)
  /\ visits' = visits + 1

InLoop == pc = "enum" /\ pattern # None

SkipPureC ==
  /\ InLoop
  /\ SkipVowels(block, pattern)
  /\ Advance
  /\ UNCHANGED << inputs, block_rules, k, i, pc, n, rules, out, config, used,
                  wordvars >>

SkipPureV ==
  /\ InLoop
  /\ ~ SkipVowels(block, pattern)
  /\ SkipConsonants(block, pattern)
  /\ Advance
  /\ UNCHANGED << inputs, block_rules, k, i, pc, n, rules, out, config, used,
                  wordvars >>

SkipOrderVC ==
  /\ InLoop
  /\ ~ SkipVowels(block, pattern)
  /\ ~ SkipConsonants(block, pattern)
  /\ SkipVC(block, pattern)
  /\ Advance
  /\ UNCHANGED << inputs, block_rules, k, i, pc, n, rules, out, config, used,
                  wordvars >>

SkipOrderCV ==
  /\ InLoop
  /\ ~ SkipVowels(block, pattern)
  /\ ~ SkipConsonants(block, pattern)
  /\ ~ SkipVC(block, pattern)
  /\ SkipCV(block, pattern)
  /\ Advance
  /\ UNCHANGED << inputs, block_rules, k, i, pc, n, rules, out, config, used,
                  wordvars >>

Filtered(b, p) ==
  \/ SkipVowels(b, p)
  \/ SkipConsonants(b, p)
  \/ SkipVC(b, p)
  \/ SkipCV(b, p)

\* the coverage branch without its  pattern = next_word(pattern)
SkipCovered_stuck ==
  /\ InLoop
  /\ ~ Filtered(block, pattern)
  /\ Covered(pattern, out)
  /\ visits < VisitCap
  /\ visits' = visits + 1
  /\ UNCHANGED << inputs, block_rules, k, i, pc, n, pattern, rules, out,
                  config, used, wordvars >>

SkipCovered ==
  /\ InLoop
  /\ ~ Filtered(block, pattern)
  /\ Covered(pattern, out)
  /\ Advance
  /\ UNCHANGED << inputs, block_rules, k, i, pc, n, rules, out, config, used,
                  wordvars >>

SkipParent ==
  /\ InLoop
  /\ ~ Filtered(block, pattern)
  /\ ~ Covered(pattern, out)
  /\ ParentCovered(pattern, parents[i + 1], block_rules, 1)
  /\ Advance
  /\ UNCHANGED << inputs, block_rules, k, i, pc, n, rules, out, config, used,
                  wordvars >>

\* rules[pattern] = None
AddRule ==
  /\ InLoop
  /\ ~ Filtered(block, pattern)
  /\ ~ Covered(pattern, out)
  /\ ~ ParentCovered(pattern, parents[i + 1], block_rules, 1)
  /\ rules' = (pattern :> Unscored) @@ rules
  /\ Advance
  /\ UNCHANGED << inputs, block_rules, k, i, pc, n, out, config, used,
                  wordvars >>

\* while pattern != None: the loop is left
EndLoop ==
  /\ pc = "enum"
  /\ pattern = None
  /\ pc' = "score"
  /\ UNCHANGED << inputs, block_rules, k, i, n, pattern, rules, out, config,
                  used, visits, wordvars >>

\* for r in rules: rules[r] = len(match(r, blist)); commit when it is 0
Score ==
  /\ pc = "score"
  /\ rules' = [ r \in DOMAIN rules |->
                  Cardinality(match(r, blocks[block], {})) ]
  /\ out' = out \cup { r \in DOMAIN rules : rules'[r] = 0 }
  /\ n' = n + 1
  /\ pc' = "length"
  /\ UNCHANGED << inputs, block_rules, k, i, pattern, config, used, visits,
                  wordvars >>

\* block_rules[block] = out; i += 1
KeepBlock ==
  /\ pc = "length"
  /\ n > num
  /\ block_rules' = KeepRules(block_rules, block, out)
  /\ i' = i + 1
  /\ k' = k + 1
  /\ pc' = "block"
  /\ UNCHANGED << inputs, n, pattern, rules, out, config, used, visits,
                  wordvars >>

\* the dictionaries and the letter groups are loaded into the output parser
WriteConfig ==
  /\ pc = "block"
  /\ k > Len(order)
  /\ config' = ("group" :> g) @@ block_rules
  /\ pc' = "done"
  /\ UNCHANGED << inputs, block_rules, k, i, n, pattern, rules, out, used,
                  visits, wordvars >>

Next ==
  \/ SkipBlock
  \/ StartBlock
  \/ StartLength
  \/ SkipPureC
  \/ SkipPureV
  \/ SkipOrderVC
  \/ SkipOrderCV
  \/ SkipCovered
  \/ SkipParent
  \/ AddRule
  \/ EndLoop
  \/ Score
  \/ KeepBlock
  \/ WriteConfig

Spec == Init /\ [][Next]_vars

\* the loop is sequential code: whenever a step is possible one is taken
LiveSpec == Init /\ [][Next]_vars /\ WF_vars(Next)

\* ------------------------------------------- next_word iterated on its own

WordInit ==
  /\ blocks = BlocksEmpty
  /\ num = 2
  /\ ignore = {}
  /\ block_rules = EmptyDict
  /\ k = 1
  /\ i = 0
  /\ pc = "word"
  /\ n = 2
  /\ pattern = None
  /\ rules = EmptyDict
  /\ out = {}
  /\ config = EmptyDict
  /\ used = EmptyDict
  /\ visits = 0
  /\ wlen \in 1..MaxLen
  /\ w = Repeat("a", wlen)
  /\ prev = None
  /\ steps = 0

\* w = next_word(w)
Successor ==
  /\ pc = "word"
  /\ w # None
  /\ steps <= Pow(AlphabetSize, MaxLen)
  /\ w' = next_word(w)
  /\ prev' = w
  /\ steps' = steps + 1
  /\ UNCHANGED << inputs, block_rules, k, i, pc, n, pattern, rules, out,
                  config, used, visits, wlen >>

WordNext == Successor

WordSpec == WordInit /\ [][WordNext]_vars

\* ------------------------------------------------- notions of the claims

Alphabet == { chr(x) : x \in _A.._Z }

LastLetter == chr(_Z)

\* all strings of length len over the alphabet
Strings(len) == [ 1..len -> Alphabet ]

\* p occurs in word as a contiguous substring
Occurs(p, word) ==
  \E j \in 1..(Len(word) - Len(p) + 1) :
    \A m \in 1..Len(p) : word[j + m - 1] = p[m]

\* position of a word among the words of its length in lexicographic order
RECURSIVE Rank(_)
Rank(u) ==
  IF Len(u) = 0 THEN 0
  ELSE Rank(SubSeq(u, 1, Len(u) - 1)) * AlphabetSize + (ord(u[Len(u)]) - _A)

\* u comes strictly before v in lexicographic order (equal lengths)
LexLess(u, v) ==
  \E j \in 1..Len(u) :
    /\ \A m \in 1..(j - 1) : u[m] = v[m]
    /\ ord(u[j]) < ord(v[j])

\* what each category admits, by its letter classes and class order
Relevant(b, p) ==
  /\ b \in { "c", "c_b" } => \A j \in 1..Len(p) : p[j] \notin VOWELS
  /\ b \in { "v", "v_w" } => \A j \in 1..Len(p) : p[j] \notin CONSONANTS
  /\ b = "vc" =>
       ~ \E j1, j2 \in 1..Len(p) :
           j1 < j2 /\ p[j1] \in CONSONANTS /\ p[j2] \in VOWELS
  /\ b = "cv_w" =>
       ~ \E j1, j2 \in 1..Len(p) :
           j1 < j2 /\ p[j1] \in VOWELS /\ p[j2] \in CONSONANTS

Position(b) == CHOOSE j \in 1..Len(order) : order[j] = b

\* the parents declared for a category, at its own position in the order
DeclaredParents(b) ==
  { parents[Position(b)][j] : j \in 1..Len(parents[Position(b)]) }

\* the parent list a processed category was pruned against
UsedParents(b) ==
  { parents[used[b] + 1][j] : j \in 1..Len(parents[used[b] + 1]) }

\* the parents of that list that had a finished rule set
AppliedParents(b) == UsedParents(b) \cap DOMAIN block_rules

HasMissingParent(b) == UsedParents(b) \ DOMAIN block_rules # {}

Processing == pc \in { "length", "enum", "score" }

\* ------------------------------------------------------------------ claims

\* C1: every pattern of a committed rule set (the finished block_rules[b]
\* and the set out being built) occurs as a contiguous substring in no word
\* of that category's word list.
C1_ZeroViolation ==
  /\ \A b \in DOMAIN block_rules :
       \A p \in block_rules[b] : \A word \in blocks[b] : ~ Occurs(p, word)
  /\ Processing =>
       \A p \in out : \A word \in blocks[block] : ~ Occurs(p, word)

\* a finished run in which a category with words committed rules of both
\* lengths 2 and 3
C1_Witness ==
  /\ pc = "done"
  /\ \E b \in DOMAIN block_rules :
       /\ blocks[b] # {}
       /\ \E p, q \in block_rules[b] : Len(p) = 2 /\ Len(q) = 3

\* C2 (as stated): a processed category shares no pattern with the rule set
\* of any category declared as its parent, whatever the ignore set.
C2_NoParentDuplicate ==
  \A b \in DOMAIN block_rules :
    \A par \in DeclaredParents(b) \cap DOMAIN block_rules :
      block_rules[b] \cap block_rules[par] = {}

\* no pattern of S has a proper contiguous substring that is itself in S
\* (two different patterns of equal length never contain one another)
NoneCovered(S) ==
  \A p2 \in S :
    \A a \in 1..Len(p2) :
      \A z \in a..Len(p2) :
        (z - a + 1 < Len(p2)) => SubSeq(p2, a, z) \notin S

\* C3: within one category no committed pattern contains another committed
\* pattern of the same or a smaller length (an equal or earlier length pass).
C3_NoCoveredRule ==
  /\ \A b \in DOMAIN block_rules : NoneCovered(block_rules[b])
  /\ Processing => NoneCovered(out)

\* a category whose rule set holds a rule of length 2 and one of length 3,
\* with a length-3 pattern that was left out for containing the shorter rule
C3_Witness ==
  \E b \in DOMAIN block_rules :
    /\ \E p1, p2 \in block_rules[b] : Len(p1) = 2 /\ Len(p2) = 3
    /\ \E p1 \in block_rules[b] :
         \E p3 \in Strings(3) :
           /\ Occurs(p1, p3)
           /\ Relevant(b, p3)
           /\ \A word \in blocks[b] : ~ Occurs(p3, word)
           /\ p3 \notin block_rules[b]

\* C4: iterating next_word from the all-'a' word of length wlen yields the
\* words of that length in strictly increasing lexicographic order, each
\* once (the word reached after steps applications has rank steps), keeps
\* the length, and yields None exactly from the word made of the last
\* letter, after (alphabet size)^wlen - 1 successors; "a<last>" goes to
\* "ba", "bc" to "bd" and "<last><last>" to None.
C4_Enumeration ==
  pc = "word" =>
    /\ w # None =>
         /\ Len(w) = wlen
         /\ Rank(w) = steps
         /\ steps > 0 => LexLess(prev, w)
         /\ (next_word(w) = None) <=> (w = Repeat(LastLetter, wlen))
    /\ w = None =>
         /\ steps = Pow(AlphabetSize, wlen)
         /\ prev = Repeat(LastLetter, wlen)
    /\ prev = << "a", LastLetter >> => w = << "b", "a" >>
    /\ prev = << "b", "c" >> => w = << "b", "d" >>
    /\ prev = << LastLetter, LastLetter >> => w = None

\* the terminal value reached from the last word of length 2, after every
\* word of that length
C4_Witness ==
  /\ pc = "word"
  /\ wlen = 2
  /\ prev = << LastLetter, LastLetter >>
  /\ w = None
  /\ steps = Pow(AlphabetSize, 2)

\* C5: every pattern in the candidate pool (rules), in out and in a finished
\* rule set is relevant to its category: no vowel for c and c_b, no
\* consonant for v and v_w, no consonant followed later by a vowel for vc,
\* no vowel followed later by a consonant for cv_w.
C5_OnlyRelevant ==
  /\ \A b \in DOMAIN block_rules : \A p \in block_rules[b] : Relevant(b, p)
  /\ Processing =>
       \A p \in (DOMAIN rules) \cup out : Relevant(block, p)

\* the mixed categories have been filtered: cv_w is at length 3 with a
\* consonant-then-vowel candidate in its pool, and vc is finished
C5_Witness ==
  /\ pc = "score"
  /\ block = "cv_w"
  /\ n = 3
  /\ << "b", "b", "a" >> \in DOMAIN rules
  /\ "vc" \in DOMAIN block_rules
  /\ "v" \in DOMAIN block_rules

\* C6 (as stated): no rule set is produced or emitted for a category whose
\* parent list names a category without a finished rule set.
C6_FailFast ==
  /\ \A b \in DOMAIN block_rules : ~ HasMissingParent(b)
  /\ \A b \in (DOMAIN config) \ { "group" } : ~ HasMissingParent(b)

\* C6 (amended): a parent without a finished rule set is passed over and the
\* run goes on: the category is still pruned against the parents of its list
\* that have a rule set, and at the end every category outside the ignore
\* set has its rule set produced and emitted.
C6_MissingParentSkipped ==
  /\ \A b \in DOMAIN block_rules :
       HasMissingParent(b) =>
         \A par \in AppliedParents(b) :
           block_rules[b] \cap block_rules[par] = {}
  /\ pc = "done" =>
       \A j \in 1..Len(order) :
         order[j] \notin ignore =>
           /\ order[j] \in DOMAIN block_rules
           /\ order[j] \in DOMAIN config
           /\ config[order[j]] = block_rules[order[j]]

\* a finished run that emitted a non-empty rule set for a category whose
\* list has one parent without a rule set and, after it, one with rules
C6_Witness ==
  /\ pc = "done"
  /\ \E b \in DOMAIN config \ { "group" } :
       /\ HasMissingParent(b)
       /\ config[b] # {}
       /\ \E par \in AppliedParents(b) : block_rules[par] # {}

\* C7: at the end of a run the rule set of a category is exactly the set of
\* patterns of length 2..num that are relevant to it, occur in no word of
\* its list, contain no shorter rule of the same set, and equal no rule of
\* an applied parent; with no words and no applied parent it is exactly the
\* set of relevant patterns of length 2.
C7_Complete ==
  pc = "done" =>
    \A b \in DOMAIN block_rules :
      /\ \A len \in 2..num :
           \A p \in Strings(len) :
             p \in block_rules[b] <=>
               /\ Relevant(b, p)
               /\ \A word \in blocks[b] : ~ Occurs(p, word)
               /\ ~ \E q \in block_rules[b] : Len(q) < len /\ Occurs(q, p)
               /\ \A par \in AppliedParents(b) : p \notin block_rules[par]
      /\ \A p \in block_rules[b] : Len(p) \in 2..num
      /\ (blocks[b] = {} /\ AppliedParents(b) = {}) =>
           block_rules[b] = { p \in Strings(2) : Relevant(b, p) }

\* a finished run with num = 3 where one category without words and without
\* parents has rules and another, with words and an applied parent,
\* committed a rule of length 3
C7_Witness ==
  /\ pc = "done"
  /\ num = 3
  /\ \E b \in DOMAIN block_rules :
       blocks[b] = {} /\ AppliedParents(b) = {} /\ block_rules[b] # {}
  /\ \E b \in DOMAIN block_rules :
       /\ blocks[b] # {}
       /\ AppliedParents(b) # {}
       /\ \E p \in block_rules[b] : Len(p) = 3

\* C8: a stored rule set never changes again, and while a category is being
\* processed its own set out only grows.
C8_Immutable ==
  [][ /\ \A b \in DOMAIN block_rules :
           b \in DOMAIN block_rules' /\ block_rules'[b] = block_rules[b]
      /\ (Processing /\ k' = k) => out \subseteq out' ]_vars

\* a later category has committed rules while two earlier rule sets, one of
\* them read as its parent, are stored
C8_Witness ==
  /\ pc = "length"
  /\ out # {}
  /\ Cardinality(DOMAIN block_rules) >= 2
  /\ \E par \in AppliedParents(block) : block_rules[par] # {}

\* C9: the run terminates; every iteration of the enumeration loop moves the
\* pattern to its successor, each length pass makes exactly
\* (alphabet size)^n iterations, and at the end every category of the order
\* has been processed or skipped.
C9_Terminates ==
  /\ <>(pc = "done")
  /\ [](pc = "score" => visits = Pow(AlphabetSize, n))
  /\ [](pc = "done" =>
          \A j \in 1..Len(order) :
            order[j] \in ignore \/ order[j] \in DOMAIN block_rules)
  /\ [][ InLoop =>
           \/ pattern' = None /\ Rank(pattern) = Pow(AlphabetSize, n) - 1
           \/ /\ pattern' # None
              /\ Len(pattern') = n
              /\ Rank(pattern') = Rank(pattern) + 1 ]_vars

\* a finished run with the largest num, one category skipped
C9_Witness ==
  /\ pc = "done"
  /\ num = MaxNum
  /\ ignore # {}
  /\ visits = Pow(AlphabetSize, MaxNum)

\* C10 (as stated): a processed category is pruned against the parent list
\* at its own position of the order.
C10_ParentsAligned ==
  \A b \in DOMAIN used : used[b] + 1 = Position(b)

============================================================================
